---------------------------- MODULE Spec2Model ----------------------------
(***************************************************************************)
(* Model of av2/torch/dataloaders/utils.py: the table-to-container         *)
(* adapters (Annotations.from_dataframe, Lidar.from_dataframe), the        *)
(* container-to-array exporters (as_tensor) and the pose lookup            *)
(* (query_SE3).                                                            *)
(*                                                                         *)
(* Numbers are counted in steps of the finest grid (float64).  float32 and *)
(* the integer kinds hold only every Coarse-th step, so a cast from        *)
(* float64 to float32 can change a value.  Strings are text cells.         *)
(***************************************************************************)
EXTENDS Integers, Sequences, FiniteSets, TLC

\* ------------------------------------------------------------------ bounds
MaxRows == 2
MaxSeed == 2
MaxTail == 1
MaxPoses == 3
MaxTime == 2
MaxCalls == 2
Coarse == 2

\* ------------------------------------------------------------- module data
DEFAULT_ANNOTATIONS_TENSOR_FIELDS ==
    <<"tx_m", "ty_m", "tz_m", "length_m", "width_m", "height_m",
      "qw", "qx", "qy", "qz", "vx_m", "vy_m", "vz_m">>

DEFAULT_LIDAR_TENSOR_FIELDS == <<"x", "y", "z">>

OrientationMode == {"QUATERNION_WXYZ", "YAW"}

\* Declared dataclass fields, in declaration order.
AnnotationsFields ==
    <<"tx_m", "ty_m", "tz_m", "length_m", "width_m", "height_m",
      "qw", "qx", "qy", "qz", "vx_m", "vy_m", "vz_m",
      "timestamp_ns", "num_interior_pts", "category", "track_uuid">>

LidarFields == <<"x", "y", "z", "intensity", "laser_number", "offset_ns">>

\* Names getattr resolves on an instance besides the fields.
AnnotationsProperties == {"quaternion", "yaw_radians"}

Methods == {"from_dataframe", "as_tensor"}

QuaternionNames == {"qw", "qx", "qy", "qz"}

\* ----------------------------------------------------------------- helpers
Range(s) == {s[i] : i \in 1..Len(s)}

Min(a, b) == IF a < b THEN a ELSE b

Prefix(s, n) == SubSeq(s, 1, Min(n, Len(s)))

FieldsOf(cls) == IF cls = "Annotations" THEN AnnotationsFields ELSE LidarFields

\* Sequences over S of length at most n.
SeqsUpTo(S, n) == UNION {[1..k -> S] : k \in 0..n}

\* --------------------------------------------------------- numeric kinds
\* Distance between neighbouring representable values of a kind or dtype.
GridStep(kind) == IF kind \in {"Float64", "float64"} THEN 1 ELSE Coarse

\* Round v to the nearest multiple of step, ties to the even multiple.
RoundTo(v, step) ==
    LET r == v % step
        lo == v - r
        hi == lo + step
    IN  IF r = 0 THEN v
        ELSE IF 2 * r < step THEN lo
        ELSE IF 2 * r > step THEN hi
        ELSE IF (lo \div step) % 2 = 0 THEN lo ELSE hi

\* torch dtype of a tensor made from a numpy buffer of the column's kind.
TorchDtype(kind) ==
    CASE kind = "Float32" -> "float32"
      [] kind = "Float64" -> "float64"
      [] OTHER -> "int32"

\* ------------------------------------------------------------ input tables
\* Column kinds of one table, by profile: every numeric column of one kind,
\* or the kinds the sensor logs are usually stored with.
KindProfiles == {"f32", "f64", "i32", "i64", "typical"}

TextFields == {"category", "track_uuid"}

KindOf(profile, name) ==
    IF name \in TextFields THEN "Utf8"
    ELSE CASE profile = "f32" -> "Float32"
           [] profile = "f64" -> "Float64"
           [] profile = "i32" -> "Int32"
           [] profile = "i64" -> "Int64"
           [] OTHER ->
                IF name \in {"timestamp_ns", "num_interior_pts"} THEN "Int64"
                ELSE IF name \in {"intensity", "laser_number"} THEN "UInt8"
                ELSE IF name = "offset_ns" THEN "Int32"
                ELSE IF name \in {"x", "y", "z"} THEN "Float32"
                ELSE "Float64"

\* Quaternions (w, x, y, z) the inputs draw from, none of unit norm (the
\* code never normalises); the last two lie off the coarse grid.
QuatList ==
    << <<2 * Coarse, 0, 0, Coarse>>, <<Coarse, 0, 0, 2 * Coarse>>,
       <<3, 1, 0, 2>>, <<1, 0, 0, -3>> >>

TranslationList == << <<0, 0, 0>>, <<3, -1, 2>>, <<-2, 5, 1>>, <<1, 1, -4>> >>

Labels == <<"REGULAR_VEHICLE", "PEDESTRIAN", "BOLLARD">>

QuatIndex(name) ==
    CASE name = "qw" -> 1 [] name = "qx" -> 2 [] name = "qy" -> 3 [] OTHER -> 4

\* Position of a column name among the names the inputs use.
NameIndex(name) ==
    LET all == AnnotationsFields \o LidarFields \o <<"extra">>
    IN  CHOOSE k \in 1..Len(all) : all[k] = name /\ \A j \in 1..(k - 1) : all[j] # name

\* The cell of column `name` in row i: a value representable in `kind`.
Cell(name, kind, i, seed) ==
    IF kind = "Utf8" THEN Labels[((NameIndex(name) + i + seed) % Len(Labels)) + 1]
    ELSE LET raw == IF name \in QuaternionNames
                    THEN QuatList[((i + seed) % Len(QuatList)) + 1][QuatIndex(name)]
                    ELSE ((NameIndex(name) * 3 + i * 5 + seed * 7) % 9) - 3
         IN  RoundTo(raw, GridStep(kind))

\* One column of a table: its declared kind and its cells in row order.
Column(name, kind, nrows, seed) ==
    [dtype |-> kind, data |-> [i \in 1..nrows |-> Cell(name, kind, i, seed)]]

\* A table: a mapping from column name to column.
DataFrame(names, profile, nrows, seed) ==
    [n \in names |-> Column(n, KindOf(profile, n), nrows, seed)]

\* Column sets the inputs try for a class: the declared fields, the declared
\* fields less one, and the declared fields plus one.
ColumnSets(cls) ==
    LET declared == Range(FieldsOf(cls))
    IN  {declared} \cup {declared \ {n} : n \in declared} \cup {declared \cup {"extra"}}

\* ------------------------------------------------- table-to-container adapter
\* A buffer that loses the column's last cell.
to_numpy_short(field) == SubSeq(field.data, 1, Len(field.data) - 1)

\* Series.to_numpy(writable=True): the column's cells, in order, as a buffer.
to_numpy(field) == field.data

\* Series.to_list(): the column's cells, in order, as a list.
to_list(field) == field.data

\* torch.as_tensor(buffer): a tensor of the buffer's dtype over the same cells.
as_tensor_of(field) ==
    [rep |-> "Tensor", dtype |-> TorchDtype(field.dtype),
     shape |-> <<Len(to_numpy(field))>>, data |-> to_numpy(field)]

\* tuple(list)
tuple_of(field) ==
    [rep |-> "tuple", dtype |-> "object",
     shape |-> <<Len(to_list(field))>>, data |-> to_list(field)]

\* A column left as the table engine's own column object.
series_of(field) ==
    [rep |-> "Series", dtype |-> field.dtype,
     shape |-> <<Len(field.data)>>, data |-> field.data]

\* The dict built by Annotations.from_dataframe before the constructor call.
AnnotationsColumns(dataframe) ==
    [field_name \in DOMAIN dataframe |->
        IF dataframe[field_name].dtype \in {"Float32", "Float64", "Int32"}
        THEN as_tensor_of(dataframe[field_name])
        ELSE tuple_of(dataframe[field_name])]

\* The dict built by Lidar.from_dataframe before the constructor call.
LidarColumns(dataframe) ==
    [field_name \in DOMAIN dataframe |->
        IF dataframe[field_name].dtype \in {"Float32", "Int32"}
        THEN as_tensor_of(dataframe[field_name])
        ELSE series_of(dataframe[field_name])]

\* A constructor that ignores keywords it does not know.
ConstructLenient(cls, columns) ==
    IF Range(FieldsOf(cls)) \subseteq DOMAIN columns
    THEN [status |-> "ok", error |-> "none", cls |-> cls,
          fields |-> [n \in Range(FieldsOf(cls)) |-> columns[n]]]
    ELSE [status |-> "raise", error |-> "TypeError", cls |-> cls, fields |-> <<>>]

\* The dataclass constructor cls(**columns): every declared field must be
\* given and no other keyword is accepted.
Construct(cls, columns) ==
    IF DOMAIN columns = Range(FieldsOf(cls))
    THEN [status |-> "ok", error |-> "none", cls |-> cls, fields |-> columns]
    ELSE [status |-> "raise", error |-> "TypeError", cls |-> cls, fields |-> <<>>]

AnnotationsFromDataframe(dataframe) ==
    Construct("Annotations", AnnotationsColumns(dataframe))

LidarFromDataframe(dataframe) ==
    Construct("Lidar", LidarColumns(dataframe))

NoContainer == [status |-> "none", error |-> "none", cls |-> "none", fields |-> <<>>]

\* ------------------------------------------------------- tensor elements
\* An element of a float tensor: a number of steps, or the angle
\* atan2(a, b) rounded to the precision of dtype prec.
Num(v) == [tag |-> "num", a |-> v, b |-> 0, prec |-> "exact"]

Angle(y, x, prec) == [tag |-> "atan2", a |-> y, b |-> x, prec |-> prec]

\* Tensor.type(dtype) on one element.
CastElem(e, dtype) ==
    IF e.tag = "num" THEN Num(RoundTo(e.a, GridStep(dtype)))
    ELSE Angle(e.a, e.b, IF dtype = "float32" THEN "float32" ELSE e.prec)

Raise(error) ==
    [status |-> "raise", error |-> error,
     value |-> [rep |-> "none", dtype |-> "none", shape |-> <<>>, data |-> <<>>]]

Ok(value) == [status |-> "ok", error |-> "none", value |-> value]

\* torch.stack(tensors, dim=-1): a new last axis over same-shaped tensors.
torch_stack(tensors) ==
    IF Len(tensors) = 0 THEN Raise("RuntimeError")
    ELSE IF \E j \in 1..Len(tensors) : tensors[j].rep # "Tensor" THEN Raise("TypeError")
    ELSE IF \E j \in 1..Len(tensors) : tensors[j].shape # tensors[1].shape
         THEN Raise("RuntimeError")
    ELSE LET K == Len(tensors)
             shape == tensors[1].shape
             dtypes == [j \in 1..K |-> tensors[j].dtype]
             promoted == IF \E j \in 1..K : dtypes[j] = "float64" THEN "float64"
                         ELSE IF \E j \in 1..K : dtypes[j] = "float32" THEN "float32"
                         ELSE "int32"
         IN  Ok([rep |-> "Tensor", dtype |-> promoted, shape |-> shape \o <<K>>,
                 data |-> IF Len(shape) = 1
                          THEN [i \in 1..shape[1] |-> [j \in 1..K |-> tensors[j].data[i]]]
                          ELSE [i \in 1..shape[1] |->
                                  [c \in 1..shape[2] |->
                                     [j \in 1..K |-> tensors[j].data[i][c]]]]])

\* Tensor.type(dtype): every element cast to dtype.
Type(tensor, dtype) ==
    [rep |-> "Tensor", dtype |-> dtype, shape |-> tensor.shape,
     data |-> IF Len(tensor.shape) = 2
              THEN [i \in 1..tensor.shape[1] |->
                      [j \in 1..tensor.shape[2] |-> CastElem(tensor.data[i][j], dtype)]]
              ELSE [i \in 1..tensor.shape[1] |->
                      [c \in 1..tensor.shape[2] |->
                         [j \in 1..tensor.shape[3] |->
                            CastElem(tensor.data[i][c][j], dtype)]]]]

\* A stored field as getattr returns it; a tensor's cells read as elements.
Stored(value) ==
    IF value.rep = "Tensor"
    THEN [value EXCEPT !.data = [i \in 1..Len(value.data) |-> Num(value.data[i])]]
    ELSE value

\* quat_to_yaw(quat_wxyz): the rotation about z of each row's quaternion,
\* computed in the precision of the input.
quat_to_yaw(quat) ==
    [rep |-> "Tensor",
     dtype |-> IF quat.dtype = "float64" THEN "float64" ELSE "float32",
     shape |-> <<quat.shape[1]>>,
     data |-> [i \in 1..quat.shape[1] |->
                 LET qw == quat.data[i][1].a
                     qx == quat.data[i][2].a
                     qy == quat.data[i][3].a
                     qz == quat.data[i][4].a
                 IN  Angle(2 * (qw * qz + qx * qy),
                           qw * qw + qx * qx - qy * qy - qz * qz,
                           IF quat.dtype = "float64" THEN "float64" ELSE "float32")]]

\* Annotations.quaternion
quaternion(self) ==
    torch_stack(<<Stored(self.fields["qw"]), Stored(self.fields["qx"]),
                  Stored(self.fields["qy"]), Stored(self.fields["qz"])>>)

\* Annotations.yaw_radians
yaw_radians(self) ==
    LET quat == quaternion(self)
    IN  IF quat.status = "ok" THEN Ok(quat_to_yaw(quat.value)) ELSE quat

\* getattr(self, field_name, None): a missing attribute reads as None.
GetAttrOrNone(self, field_name) ==
    IF field_name \in DOMAIN self.fields THEN Ok(Stored(self.fields[field_name]))
    ELSE Ok([rep |-> "NoneType", dtype |-> "none", shape |-> <<>>, data |-> <<>>])

\* getattr(self, field_name)
GetAttr(self, field_name) ==
    IF field_name \in DOMAIN self.fields THEN Ok(Stored(self.fields[field_name]))
    ELSE IF self.cls = "Annotations" /\ field_name = "quaternion" THEN quaternion(self)
    ELSE IF self.cls = "Annotations" /\ field_name = "yaw_radians" THEN yaw_radians(self)
    ELSE IF field_name \in Methods
         THEN Ok([rep |-> "method", dtype |-> "none", shape |-> <<>>, data |-> <<>>])
    ELSE Raise("AttributeError")

\* list.append(x) in place of the insert.
ListAppend(list, index, x) == list \o <<x>>

\* list.insert(index, x) for index >= 0: past the end it appends.
ListInsert(list, index, x) ==
    LET k == Min(index, Len(list))
    IN  SubSeq(list, 1, k) \o <<x>> \o SubSeq(list, k + 1, Len(list))

YawInsertIndex == 6

\* A filter that forgets qz.
NotQuaternionButQz(field_name) == field_name \notin {"qw", "qx", "qy"}

\* The filter of the YAW-mode rewrite.
NotQuaternion(field_name) == field_name \notin QuaternionNames

\* The YAW-mode rewrite of field_ordering.
YawOrdering(field_ordering) ==
    ListInsert(SelectSeq(field_ordering, NotQuaternion), YawInsertIndex, "yaw")

\* The list comprehension `fields` and the stack and cast that follow: the
\* first failing lookup raises; the stack runs only when every lookup worked.
Export(looked, dtype) ==
    IF \E j \in 1..Len(looked) : looked[j].status = "raise"
    THEN LET first == CHOOSE j \in 1..Len(looked) :
                         /\ looked[j].status = "raise"
                         /\ \A k \in 1..(j - 1) : looked[k].status = "ok"
         IN  Raise(looked[first].error)
    ELSE LET stacked == torch_stack([j \in 1..Len(looked) |-> looked[j].value])
         IN  IF stacked.status = "ok" THEN Ok(Type(stacked.value, dtype)) ELSE stacked

\* The ordering Annotations.as_tensor iterates over.
AnnotationsEffectiveOrdering(field_ordering, orientation_mode) ==
    IF orientation_mode = "YAW" THEN YawOrdering(field_ordering) ELSE field_ordering

\* as_tensor rewriting the caller's ordering object in place.
AnnotationsAsTensorInPlace(self, field_ordering, orientation_mode, dtype) ==
    LET effective == AnnotationsEffectiveOrdering(field_ordering, orientation_mode)
        looked == [j \in 1..Len(effective) |->
                     IF effective[j] # "yaw" THEN GetAttr(self, effective[j])
                     ELSE yaw_radians(self)]
    IN  [ret |-> Export(looked, dtype), self |-> self, field_ordering |-> effective]

\* Annotations.as_tensor: what it returns, and the objects it was handed as
\* they are when it returns.
AnnotationsAsTensor(self, field_ordering, orientation_mode, dtype) ==
    LET effective == AnnotationsEffectiveOrdering(field_ordering, orientation_mode)
        looked == [j \in 1..Len(effective) |->
                     IF effective[j] # "yaw" THEN GetAttr(self, effective[j])
                     ELSE yaw_radians(self)]
    IN  [ret |-> Export(looked, dtype), self |-> self, field_ordering |-> field_ordering]

\* Lidar.as_tensor: what it returns, and the objects it was handed as they
\* are when it returns.
LidarAsTensor(self, field_ordering, dtype) ==
    LET looked == [j \in 1..Len(field_ordering) |-> GetAttr(self, field_ordering[j])]
    IN  [ret |-> Export(looked, dtype), self |-> self, field_ordering |-> field_ordering]

\* ---------------------------------------------------------------- pose query
\* One row of a poses table.
PoseRow(t, p) ==
    [timestamp_ns |-> t,
     qw |-> QuatList[p][1], qx |-> QuatList[p][2],
     qy |-> QuatList[p][3], qz |-> QuatList[p][4],
     tx_m |-> TranslationList[p][1], ty_m |-> TranslationList[p][2],
     tz_m |-> TranslationList[p][3]]

PoseRows == {PoseRow(t, p) : t \in 1..MaxTime, p \in 1..Len(QuatList)}

\* A filter that keeps every row up to the timestamp.
FilterUpToTimestamp(poses, timestamp_ns) ==
    LET Matches(row) == row.timestamp_ns <= timestamp_ns
    IN  SelectSeq(poses, Matches)

\* poses.filter(pl.col("timestamp_ns") == timestamp_ns): the matching rows,
\* in table order.
FilterTimestamp(poses, timestamp_ns) ==
    LET Matches(row) == row.timestamp_ns = timestamp_ns
    IN  SelectSeq(poses, Matches)

\* pose.select([qw, qx, qy, qz]).to_numpy(): a (rows, 4) array.
SelectQuat(pose) ==
    [shape |-> <<Len(pose), 4>>,
     data |-> [i \in 1..Len(pose) |-> <<pose[i].qw, pose[i].qx, pose[i].qy, pose[i].qz>>]]

\* pose.select([tx_m, ty_m, tz_m]).to_numpy(): a (rows, 3) array.
SelectTranslation(pose) ==
    [shape |-> <<Len(pose), 3>>,
     data |-> [i \in 1..Len(pose) |-> <<pose[i].tx_m, pose[i].ty_m, pose[i].tz_m>>]]

\* ndarray.squeeze() of a (rows, width) array with width > 1: the row axis
\* goes only when it has length one.
squeeze(array) ==
    IF array.shape[1] = 1
    THEN [shape |-> <<array.shape[2]>>, data |-> array.data[1]]
    ELSE array

\* The rotation matrix of one quaternion (w, x, y, z), as the integer matrix
\* num over the common denominator den = |q|^2.
RotationOf(q) ==
    LET w == q[1]
        x == q[2]
        y == q[3]
        z == q[4]
        n == w * w + x * x + y * y + z * z
    IN  [den |-> n,
         num |-> << <<n - 2 * (y * y + z * z), 2 * (x * y - w * z), 2 * (x * z + w * y)>>,
                    <<2 * (x * y + w * z), n - 2 * (x * x + z * z), 2 * (y * z - w * x)>>,
                    <<2 * (x * z - w * y), 2 * (y * z + w * x), n - 2 * (x * x + y * y)>> >>]

\* quat_to_mat: (..., 4) quaternions to (..., 3, 3) rotation matrices.
quat_to_mat(quat) ==
    IF Len(quat.shape) = 1
    THEN [shape |-> <<3, 3>>, data |-> RotationOf(quat.data)]
    ELSE [shape |-> <<quat.shape[1], 3, 3>>,
          data |-> [i \in 1..quat.shape[1] |-> RotationOf(quat.data[i])]]

\* What constructing SE3(rotation, translation) can do: with a (3, 3)
\* rotation and a (3,) translation it builds the transform; what it does
\* with other shapes is the collaborator's choice.
SE3(rotation, translation) ==
    LET built == [status |-> "ok", error |-> "none",
                  rotation |-> rotation, translation |-> translation]
        refused == [status |-> "raise", error |-> "ValueError",
                    rotation |-> rotation, translation |-> translation]
    IN  IF rotation.shape = <<3, 3>> /\ translation.shape = <<3>>
        THEN {built}
        ELSE {built, refused}

\* query_SE3: the outcomes of one call.
query_SE3(poses, timestamp_ns) ==
    LET pose == FilterTimestamp(poses, timestamp_ns)
        quat == squeeze(SelectQuat(pose))
        translation == squeeze(SelectTranslation(pose))
    IN  SE3(quat_to_mat(quat), translation)

NoPose ==
    [status |-> "none", error |-> "none",
     rotation |-> [shape |-> <<>>, data |-> <<>>],
     translation |-> [shape |-> <<>>, data |-> <<>>]]

\* ------------------------------------------------------------ state machine
VARIABLES
    pc,             \* "table", "container" or "poses"
    cls,            \* the container class the table is for
    dataframe,      \* the table handed to from_dataframe
    container,      \* what from_dataframe returned or raised
    defaults,       \* the module-level default orderings
    field_ordering, \* the caller's ordering object of the last as_tensor call
    args,           \* the other arguments of the last as_tensor call
    out,            \* what the last as_tensor call returned or raised
    out2,           \* what the same call, made again, returned or raised
    poses,          \* the poses table
    timestamp_ns,   \* the timestamp of the last query_SE3 call
    pose            \* what the last query_SE3 call returned or raised

vars == <<pc, cls, dataframe, container, defaults, field_ordering, args, out, out2,
          poses, timestamp_ns, pose>>

NoOut == Raise("none")

NoArgs == [calls |-> 0, explicit |-> TRUE, orientation_mode |-> "none", dtype |-> "none"]

Dtypes == {"float32", "float64"}

\* Names the tried orderings append to a prefix of the default ordering.
TailNames(c) ==
    IF c = "Annotations"
    THEN {"qw", "yaw", "category", "timestamp_ns", "bogus"}
    ELSE {"x", "yaw", "intensity", "bogus"}

DefaultOrdering(c) ==
    IF c = "Annotations" THEN defaults.Annotations ELSE defaults.Lidar

\* The orderings the calls try: a prefix of the default ordering followed by
\* at most MaxTail further names.
Orderings(c) ==
    LET default == IF c = "Annotations" THEN DEFAULT_ANNOTATIONS_TENSOR_FIELDS
                   ELSE DEFAULT_LIDAR_TENSOR_FIELDS
    IN  {Prefix(default, n) \o tail :
            n \in 0..Len(default), tail \in SeqsUpTo(TailNames(c), MaxTail)}

InitTable ==
    /\ pc = "table"
    /\ cls \in {"Annotations", "Lidar"}
    /\ \E names \in ColumnSets(cls), profile \in KindProfiles,
          nrows \in 0..MaxRows, seed \in 1..MaxSeed :
          dataframe = DataFrame(names, profile, nrows, seed)
    /\ poses = <<>>

InitPoses ==
    /\ pc = "poses"
    /\ cls = "none"
    /\ dataframe = <<>>
    /\ poses \in SeqsUpTo(PoseRows, MaxPoses)

Init ==
    /\ InitTable \/ InitPoses
    /\ container = NoContainer
    /\ defaults = [Annotations |-> DEFAULT_ANNOTATIONS_TENSOR_FIELDS,
                   Lidar |-> DEFAULT_LIDAR_TENSOR_FIELDS]
    /\ field_ordering = <<>>
    /\ args = NoArgs
    /\ out = NoOut
    /\ out2 = NoOut
    /\ timestamp_ns = 0
    /\ pose = NoPose

AnnotationsFromDataframeStep ==
    /\ pc = "table"
    /\ cls = "Annotations"
    /\ container' = AnnotationsFromDataframe(dataframe)
    /\ pc' = "container"
    /\ UNCHANGED <<cls, dataframe, defaults, field_ordering, args, out, out2,
                   poses, timestamp_ns, pose>>

LidarFromDataframeStep ==
    /\ pc = "table"
    /\ cls = "Lidar"
    /\ container' = LidarFromDataframe(dataframe)
    /\ pc' = "container"
    /\ UNCHANGED <<cls, dataframe, defaults, field_ordering, args, out, out2,
                   poses, timestamp_ns, pose>>

\* One as_tensor call on the container; explicit = FALSE leaves field_ordering
\* to its default.
Call(self, ordering, a) ==
    IF self.cls = "Annotations"
    THEN AnnotationsAsTensor(self, ordering, a.orientation_mode, a.dtype)
    ELSE LidarAsTensor(self, ordering, a.dtype)

\* The module-level defaults after a call that was handed `before` and left
\* it as `after`.
DefaultsAfter(a, after) ==
    IF a.explicit THEN defaults
    ELSE IF cls = "Annotations" THEN [defaults EXCEPT !.Annotations = after]
    ELSE [defaults EXCEPT !.Lidar = after]

AsTensorStep ==
    /\ pc = "container"
    /\ container.status = "ok"
    /\ args.calls = 0
    /\ \E explicit \in BOOLEAN, dtype \in Dtypes,
          mode \in (IF cls = "Annotations" THEN OrientationMode ELSE {"none"}) :
          \E ordering \in (IF explicit THEN Orderings(cls) ELSE {DefaultOrdering(cls)}) :
             LET a == [calls |-> 1, explicit |-> explicit,
                       orientation_mode |-> mode, dtype |-> dtype]
                 effect == Call(container, ordering, a)
             IN  /\ out' = effect.ret
                 /\ container' = effect.self
                 /\ field_ordering' = effect.field_ordering
                 /\ defaults' = DefaultsAfter(a, effect.field_ordering)
                 /\ args' = a
                 /\ out2' = NoOut
    /\ UNCHANGED <<pc, cls, dataframe, poses, timestamp_ns, pose>>

\* The caller repeats its last call with the same objects.
AsTensorAgainStep ==
    /\ pc = "container"
    /\ container.status = "ok"
    /\ args.calls >= 1
    /\ args.calls < MaxCalls
    /\ LET ordering == IF args.explicit THEN field_ordering ELSE DefaultOrdering(cls)
           effect == Call(container, ordering, args)
       IN  /\ out2' = effect.ret
           /\ container' = effect.self
           /\ field_ordering' = effect.field_ordering
           /\ defaults' = DefaultsAfter(args, effect.field_ordering)
           /\ args' = [args EXCEPT !.calls = args.calls + 1]
    /\ UNCHANGED <<pc, cls, dataframe, out, poses, timestamp_ns, pose>>

QuerySE3Step ==
    /\ pc = "poses"
    /\ \E t \in 1..(MaxTime + 1) :
          /\ timestamp_ns' = t
          /\ pose' \in query_SE3(poses, t)
    /\ UNCHANGED <<pc, cls, dataframe, container, defaults, field_ordering, args,
                   out, out2, poses>>

Next ==
    \/ AnnotationsFromDataframeStep
    \/ LidarFromDataframeStep
    \/ AsTensorStep
    \/ AsTensorAgainStep
    \/ QuerySE3Step

Spec == Init /\ [][Next]_vars

\* ------------------------------------------------------------------ claims
\* What the claims read off a state.
Called == pc = "container" /\ args.calls >= 1

RowCount == Len(dataframe[FieldsOf(cls)[1]].data)

RECURSIVE WithoutQuaternions(_)
WithoutQuaternions(names) ==
    IF names = <<>> THEN <<>>
    ELSE IF Head(names) \in {"qw", "qx", "qy", "qz"} THEN WithoutQuaternions(Tail(names))
    ELSE <<Head(names)>> \o WithoutQuaternions(Tail(names))

\* Where the claims put "yaw" in a filtered list: index 6, or the end of a
\* shorter list.
YawPosition(filtered) == IF Len(filtered) < 6 THEN Len(filtered) + 1 ELSE 7

\* The ordering the claims call effective.
ClaimedOrdering ==
    IF cls = "Annotations" /\ args.orientation_mode = "YAW"
    THEN LET filtered == WithoutQuaternions(field_ordering)
             at == YawPosition(filtered)
         IN  [j \in 1..(Len(filtered) + 1) |->
                 IF j < at THEN filtered[j]
                 ELSE IF j = at THEN "yaw"
                 ELSE filtered[j - 1]]
    ELSE field_ordering

\* The cells of the container field `name`, cast to the call's dtype; "yaw"
\* names the derived yaw of an Annotations container.
ClaimedColumn(name) ==
    IF name = "yaw"
    THEN [i \in 1..RowCount |-> CastElem(yaw_radians(container).value.data[i], args.dtype)]
    ELSE [i \in 1..RowCount |-> CastElem(Num(container.fields[name].data[i]), args.dtype)]

\* `result` is the 2D array whose column j is the claimed column of names[j].
HoldsColumns(result, names) ==
    /\ result.status = "ok"
    /\ result.value.shape = <<RowCount, Len(names)>>
    /\ \A j \in 1..Len(names) : \A i \in 1..RowCount :
          result.value.data[i][j] = ClaimedColumn(names[j])[i]

\* C1: every as_tensor call, whatever the container and the ordering, returns
\* the (row_count, len(effective_ordering)) array whose column j holds the
\* field named effective_ordering[j].
C1_AsTensorAlwaysReturnsArray == Called => HoldsColumns(out, ClaimedOrdering)

\* C2: a successful Annotations.as_tensor call returns the columns of the
\* effective ordering: in YAW mode the ordering without qw, qx, qy, qz and
\* with "yaw" inserted at index 6 (the end of a shorter list), the "yaw"
\* column being the derived yaw; in QUATERNION_WXYZ mode the ordering as given.
C2_YawRewrite ==
    (Called /\ cls = "Annotations" /\ out.status = "ok")
        => HoldsColumns(out, ClaimedOrdering)

C2_Witness ==
    /\ Called /\ cls = "Annotations" /\ out.status = "ok"
    /\ args.orientation_mode = "YAW"
    /\ field_ordering = DEFAULT_ANNOTATIONS_TENSOR_FIELDS
    /\ RowCount = 2
    /\ out.value.shape = <<2, 10>>
    /\ out.value.data[1][7].tag = "atan2"

\* C3: after from_dataframe, a column of kind float32, float64 or int32 is a
\* tensor over the column's cells and every other column is a tuple of them.
C3_NumericKindsBecomeTensors ==
    (pc = "container" /\ container.status = "ok") =>
        \A n \in DOMAIN dataframe :
            /\ container.fields[n].data = dataframe[n].data
            /\ container.fields[n].rep =
                  IF dataframe[n].dtype \in {"Float32", "Float64", "Int32"}
                  THEN "Tensor" ELSE "tuple"

\* C4: from_dataframe returns a container exactly when the table's column
\* names are the declared fields; otherwise it raises and builds nothing.
C4_ExactColumns ==
    pc = "container" =>
        /\ container.status \in {"ok", "raise"}
        /\ container.status = "ok" <=>
              /\ \A n \in DOMAIN dataframe : \E k \in 1..Len(FieldsOf(cls)) : FieldsOf(cls)[k] = n
              /\ \A k \in 1..Len(FieldsOf(cls)) : FieldsOf(cls)[k] \in DOMAIN dataframe
        /\ container.status = "raise" =>
              container.error = "TypeError" /\ DOMAIN container.fields = {}

C4_Witness ==
    /\ pc = "container"
    /\ container.status = "raise"
    /\ cls = "Lidar"
    /\ "offset_ns" \notin DOMAIN dataframe

\* C9: reading the fields of a built container back by attribute gives, for
\* every column, the column's cells in the column's order.
C9_RoundTrip ==
    (pc = "container" /\ container.status = "ok") =>
        \A k \in 1..Len(FieldsOf(cls)) :
            LET n == FieldsOf(cls)[k]
                read == GetAttr(container, n)
            IN  /\ read.status = "ok"
                /\ Len(read.value.data) = RowCount
                /\ \A i \in 1..RowCount :
                      read.value.data[i] =
                         IF read.value.rep = "Tensor" THEN Num(dataframe[n].data[i])
                         ELSE dataframe[n].data[i]

C9_Witness ==
    /\ pc = "container" /\ container.status = "ok"
    /\ cls = "Annotations"
    /\ RowCount = 2
    /\ container.fields["tx_m"].rep = "Tensor"
    /\ container.fields["category"].rep = "tuple"
    /\ container.fields["category"].data[1] # container.fields["category"].data[2]
    /\ container.fields["tx_m"].data[1] # container.fields["tx_m"].data[2]

\* Rows of the poses table whose timestamp is the queried one.
MatchingRows == {r \in 1..Len(poses) : poses[r].timestamp_ns = timestamp_ns}

Queried == pc = "poses" /\ pose.status # "none"

\* C5: when exactly one row has the queried timestamp, query_SE3 returns the
\* transform of that row: the rotation matrix of its quaternion taken as one
\* 4-vector and its translation taken as one 3-vector, wherever the row is
\* and whatever the other rows hold.
C5_QueryReturnsMatchedRow ==
    (Queried /\ Cardinality(MatchingRows) = 1) =>
        \A r \in MatchingRows :
            /\ pose.status = "ok"
            /\ pose.rotation.shape = <<3, 3>>
            /\ pose.rotation.data =
                  RotationOf(<<poses[r].qw, poses[r].qx, poses[r].qy, poses[r].qz>>)
            /\ pose.translation.shape = <<3>>
            /\ pose.translation.data = <<poses[r].tx_m, poses[r].ty_m, poses[r].tz_m>>

C5_Witness ==
    /\ Queried
    /\ Len(poses) = 3
    /\ MatchingRows = {2}
    /\ poses[1].qw # poses[2].qw
    /\ pose.status = "ok"
    /\ pose.translation.data = <<poses[2].tx_m, poses[2].ty_m, poses[2].tz_m>>

\* C6: with no matching row query_SE3 fails with NotFoundError, and with
\* more than one it fails with AmbiguousResultError.
C6_QueryRaisesUnlessOneMatch ==
    (Queried /\ Cardinality(MatchingRows) # 1) =>
        /\ pose.status = "raise"
        /\ pose.error = IF MatchingRows = {} THEN "NotFoundError"
                        ELSE "AmbiguousResultError"

\* Names getattr resolves on the container.
AttributeNames ==
    Range(FieldsOf(cls)) \cup Methods
        \cup (IF cls = "Annotations" THEN AnnotationsProperties ELSE {})

\* An entry as_tensor cannot resolve: no attribute, and not the synthetic
\* "yaw" of an Annotations container.
Unknown(name) ==
    /\ name \notin AttributeNames
    /\ ~(cls = "Annotations" /\ name = "yaw")

HasUnknown == \E j \in 1..Len(ClaimedOrdering) : Unknown(ClaimedOrdering[j])

\* C7 as stated: a call whose effective ordering has an unknown entry fails
\* with the attribute-lookup error, and no other call fails with it.
C7_UnknownFieldIsAttributeError ==
    Called =>
        /\ HasUnknown => (out.status = "raise" /\ out.error = "AttributeError")
        /\ (~HasUnknown) => ~(out.status = "raise" /\ out.error = "AttributeError")

\* The derived yaw cannot be computed: a quaternion field is no tensor.
YawFails ==
    /\ cls = "Annotations"
    /\ \E n \in QuaternionNames : container.fields[n].rep # "Tensor"

\* An entry that reads the derived yaw comes before the first unknown entry.
YawBeforeUnknown ==
    \E j \in 1..Len(ClaimedOrdering) :
        /\ Unknown(ClaimedOrdering[j])
        /\ \A k \in 1..(j - 1) : ~Unknown(ClaimedOrdering[k])
        /\ \E k \in 1..(j - 1) : ClaimedOrdering[k] \in {"yaw", "yaw_radians", "quaternion"}

\* C7, amended: a call whose effective ordering has an unknown entry fails
\* and returns nothing; the failure is the attribute-lookup error unless an
\* entry reading the derived yaw precedes the first unknown entry and the
\* yaw cannot be computed, and then it is that TypeError.  No call without
\* an unknown entry fails with the attribute-lookup error.
C7_UnknownFieldFails ==
    Called =>
        /\ HasUnknown =>
              /\ out.status = "raise"
              /\ out.value.data = <<>>
              /\ out.error = IF YawFails /\ YawBeforeUnknown THEN "TypeError"
                             ELSE "AttributeError"
        /\ (~HasUnknown) => ~(out.status = "raise" /\ out.error = "AttributeError")

C7_Witness ==
    /\ Called /\ cls = "Annotations"
    /\ args.orientation_mode = "YAW"
    /\ field_ordering = Prefix(DEFAULT_ANNOTATIONS_TENSOR_FIELDS, 6) \o <<"bogus">>
    /\ ~YawFails
    /\ out.status = "raise"
    /\ out.error = "AttributeError"

\* The QUATERNION_WXYZ export of the same container, ordering and dtype.
QuaternionExport ==
    AnnotationsAsTensor(container, field_ordering, "QUATERNION_WXYZ", args.dtype).ret

FirstIndex(names, name) ==
    CHOOSE j \in 1..Len(names) : names[j] = name /\ \A k \in 1..(j - 1) : names[k] # name

\* The yaw derived from the qw, qx, qy, qz columns of the quaternion export.
YawOfQuaternionExport ==
    LET q == QuaternionExport.value
        col == [c \in 1..4 |-> FirstIndex(field_ordering, <<"qw", "qx", "qy", "qz">>[c])]
    IN  quat_to_yaw([rep |-> "Tensor", dtype |-> q.dtype, shape |-> <<q.shape[1], 4>>,
                     data |-> [i \in 1..q.shape[1] |-> [c \in 1..4 |-> q.data[i][col[c]]]]])

\* Positions of the entries of names that are no quaternion component.
OtherPositions(names) ==
    LET Keep(j) == names[j] \notin QuaternionNames
    IN  SelectSeq([j \in 1..Len(names) |-> j], Keep)

\* The last call was a successful YAW export of an ordering that lists qw,
\* qx, qy and qz.
YawExported ==
    /\ Called /\ cls = "Annotations" /\ args.orientation_mode = "YAW"
    /\ QuaternionNames \subseteq Range(field_ordering)
    /\ out.status = "ok"

\* The columns of the YAW export other than the inserted "yaw" are the
\* non-quaternion columns of the quaternion export, in the same order.
OtherColumnsAgree ==
    LET others == OtherPositions(field_ordering)
        at == YawPosition(others)
    IN  /\ out.value.shape[2] = Len(others) + 1
        /\ \A j \in 1..Len(others) : \A i \in 1..RowCount :
              out.value.data[i][IF j < at THEN j ELSE j + 1]
                 = QuaternionExport.value.data[i][others[j]]

YawColumnAgrees ==
    \A i \in 1..RowCount :
        out.value.data[i][YawPosition(OtherPositions(field_ordering))]
           = YawOfQuaternionExport.data[i]

\* C8 as stated: the yaw derived from the quaternion export equals the "yaw"
\* column of the YAW export, and the other columns agree.
C8_OrientationEquivalence ==
    YawExported =>
        /\ QuaternionExport.status = "ok"
        /\ OtherColumnsAgree
        /\ YawColumnAgrees

\* The stored quaternion fields all have the export's dtype.
QuaternionStoredAs(dtype) ==
    \A n \in QuaternionNames : container.fields[n].dtype = dtype

\* C8, amended: the other columns always agree, and the yaw derived from the
\* quaternion export equals the "yaw" column of the YAW export when the
\* stored qw, qx, qy, qz already have the export's dtype.
C8_OrientationEquivalenceSameDtype ==
    YawExported =>
        /\ QuaternionExport.status = "ok"
        /\ OtherColumnsAgree
        /\ QuaternionStoredAs(args.dtype) => YawColumnAgrees

C8_Witness ==
    /\ YawExported
    /\ QuaternionStoredAs(args.dtype)
    /\ field_ordering = DEFAULT_ANNOTATIONS_TENSOR_FIELDS
    /\ RowCount = 2
    /\ out.value.data[1][7] # out.value.data[2][7]
    /\ out.value.data[1][7] = YawOfQuaternionExport.data[1]

\* The container from_dataframe built from the table.
Built ==
    IF cls = "Annotations" THEN AnnotationsFromDataframe(dataframe)
    ELSE LidarFromDataframe(dataframe)

\* C10: as_tensor calls leave the container, the caller's ordering and the
\* module-level default orderings as they were, and the same call made again
\* returns the same array or raises the same error.
C10_NoHiddenState ==
    /\ [](Called =>
            /\ container = Built
            /\ defaults = [Annotations |-> DEFAULT_ANNOTATIONS_TENSOR_FIELDS,
                           Lidar |-> DEFAULT_LIDAR_TENSOR_FIELDS]
            /\ (args.calls >= 2 => out2 = out))
    /\ [][(Called /\ args'.calls = args.calls + 1) =>
            /\ field_ordering' = field_ordering
            /\ container' = container
            /\ defaults' = defaults]_vars

C10_Witness ==
    /\ Called /\ cls = "Annotations"
    /\ args.calls = 2
    /\ args.orientation_mode = "YAW"
    /\ ~args.explicit
    /\ RowCount = 2
    /\ out.status = "ok"
    /\ out2 = out

=============================================================================
